---- MODULE Spec2Model ----
(***************************************************************************)
(* A model of risk-kit's expert scorecard engine: buckets and their        *)
(* containment / overlap tests (models/bucket.py), the validator registry  *)
(* (validation/registry.py, validation/validation_registry.py), the two    *)
(* canonical validators (validation/validators.py) and the scorecard's     *)
(* validate / audit log (models/expert_scorecard.py).                      *)
(*                                                                         *)
(* Numbers: a float is modelled by an integer of a bounded grid; the order *)
(* and equality of floats are the order and equality of the grid. NaN and  *)
(* infinities are outside the grid.  Feature weights are counted in        *)
(* thousandths (100.0 is 100000).  validated_at (datetime.now()) is not    *)
(* modelled.                                                               *)
(***************************************************************************)
EXTENDS Integers, Sequences, FiniteSets, TLC

VARIABLES
    validators,         \* registry.py: ValidatorRegistry._validators (class-level dict, insertion ordered)
    own_validators,     \* registry.py: the _validators attribute of each ValidatorRegistry instance, if it has one
    legacy_validators,  \* validation_registry.py: ValidatorRegistry._validators (class-level list)
    scorecards,         \* the ExpertScorecard instances constructed so far
    bucket1,            \* the bucket a Bucket method is called on (self)
    bucket2,            \* the bucket passed to overlaps_with (other)
    last                \* the most recent call and its outcome (return value or exception)

vars == <<validators, own_validators, legacy_validators, scorecards, bucket1, bucket2, last>>

-----------------------------------------------------------------------------
(* Bounds of the model                                                     *)

MaxNum == 2          \* bucket bounds and exact values range over 0..MaxNum
MaxListLen == 2      \* longest list definition of an ObjectBucket
MaxLegacy == 3       \* longest validation_registry list explored
MaxLog == 3          \* longest audit log explored
MaxBuckets == 3      \* most buckets of a feature whose buckets are enumerated

-----------------------------------------------------------------------------
(* Python values                                                           *)

PyNum(n) == [type |-> "num", num |-> n, str |-> ""]
PyStr(s) == [type |-> "str", num |-> 0, str |-> s]

Return(v) == [raised |-> "none", value |-> v]
Raise(e) == [raised |-> e, value |-> 0]

Max(a, b) == IF b > a THEN b ELSE a
Min(a, b) == IF b < a THEN b ELSE a

Range(s) == {s[i] : i \in 1..Len(s)}

-----------------------------------------------------------------------------
(* models/bucket.py                                                        *)

\* NumericDefinitionType = tuple[float, float] | float; an exact value v is
\* stored with lo = hi = v and form "float".
TupleDefinition(lo, hi) == [form |-> "tuple", lo |-> lo, hi |-> hi]
FloatDefinition(v) == [form |-> "float", lo |-> v, hi |-> v]

NumericBucket(definition, score, left_inclusive, right_inclusive) ==
    [class |-> "NumericBucket", definition |-> definition, score |-> score,
     left_inclusive |-> left_inclusive, right_inclusive |-> right_inclusive]

\* A plausible slip: the right bound compared with <= whatever the flag says.
NumericGetScoreRightClosed(self, value, default) ==
    IF value.type # "num" THEN Raise("TypeError")
    ELSE IF self.definition.form = "tuple"
         THEN LET left_condition == IF self.left_inclusive
                                    THEN value.num >= self.definition.lo
                                    ELSE value.num > self.definition.lo
                  right_condition == value.num <= self.definition.hi
              IN  IF left_condition /\ right_condition
                  THEN Return(self.score) ELSE Return(default)
         ELSE IF value.num = self.definition.lo
              THEN Return(self.score) ELSE Return(default)

\* A plausible slip: a value of the wrong kind takes the default score.
NumericGetScoreLenient(self, value, default) ==
    IF value.type # "num" THEN Return(default)
    ELSE IF self.definition.form = "tuple"
         THEN LET left_condition == IF self.left_inclusive
                                    THEN value.num >= self.definition.lo
                                    ELSE value.num > self.definition.lo
                  right_condition == IF self.right_inclusive
                                     THEN value.num <= self.definition.hi
                                     ELSE value.num < self.definition.hi
              IN  IF left_condition /\ right_condition
                  THEN Return(self.score) ELSE Return(default)
         ELSE IF value.num = self.definition.lo
              THEN Return(self.score) ELSE Return(default)

\* NumericBucket.get_score
NumericGetScore(self, value, default) ==
    IF value.type # "num" THEN Raise("TypeError")
    ELSE IF self.definition.form = "tuple"
         THEN LET left_bound == self.definition.lo
                  right_bound == self.definition.hi
                  left_condition == IF self.left_inclusive
                                    THEN value.num >= left_bound
                                    ELSE value.num > left_bound
                  right_condition == IF self.right_inclusive
                                     THEN value.num <= right_bound
                                     ELSE value.num < right_bound
              IN  IF left_condition /\ right_condition
                  THEN Return(self.score) ELSE Return(default)
         ELSE IF value.num = self.definition.lo
              THEN Return(self.score) ELSE Return(default)

\* NumericBucket._get_range
GetRange(self) == <<self.definition.lo, self.definition.hi>>

\* Whether a bucket with range r and the given flags includes boundary_point
IncludesBoundary(boundary_point, r, left_inclusive, right_inclusive) ==
    \/ (boundary_point = r[1] /\ left_inclusive)
    \/ (boundary_point = r[2] /\ right_inclusive)
    \/ (r[1] < boundary_point /\ boundary_point < r[2])

\* A plausible slip: at a single-point intersection only self is asked.
NumericOverlapsWithSelfOnly(self, other) ==
    LET self_range == GetRange(self)
        other_range == GetRange(other)
        intersection_left == Max(self_range[1], other_range[1])
        intersection_right == Min(self_range[2], other_range[2])
    IN  IF intersection_left > intersection_right THEN FALSE
        ELSE IF intersection_left < intersection_right THEN TRUE
        ELSE IncludesBoundary(intersection_left, self_range,
                              self.left_inclusive, self.right_inclusive)

\* NumericBucket.overlaps_with
NumericOverlapsWith(self, other) ==
    LET self_range == GetRange(self)
        other_range == GetRange(other)
        intersection_left == Max(self_range[1], other_range[1])
        intersection_right == Min(self_range[2], other_range[2])
    IN  IF intersection_left > intersection_right THEN FALSE
        ELSE IF intersection_left < intersection_right THEN TRUE
        ELSE LET boundary_point == intersection_left
                 self_includes ==
                     IncludesBoundary(boundary_point, self_range,
                                      self.left_inclusive, self.right_inclusive)
                 other_includes ==
                     IncludesBoundary(boundary_point, other_range,
                                      other.left_inclusive, other.right_inclusive)
             IN  self_includes /\ other_includes

\* ObjectDefinitionType = str | list[str]; a single string s is stored as
\* form "str" with items <<s>>.
StrDefinition(s) == [form |-> "str", items |-> <<s>>]
ListDefinition(items) == [form |-> "list", items |-> items]

ObjectBucket(definition, score) ==
    [class |-> "ObjectBucket", definition |-> definition, score |-> score]

\* ObjectBucket.get_score
ObjectGetScore(self, value, default) ==
    IF value.type # "str" THEN Raise("TypeError")
    ELSE IF self.definition.form = "str"
         THEN IF value.str = self.definition.items[1]
              THEN Return(self.score) ELSE Return(default)
         ELSE IF \E i \in 1..Len(self.definition.items) :
                     self.definition.items[i] = value.str
              THEN Return(self.score) ELSE Return(default)

\* ObjectBucket._get_values
GetValues(self) ==
    IF self.definition.form = "str"
    THEN {self.definition.items[1]}
    ELSE Range(self.definition.items)

\* ObjectBucket.overlaps_with
ObjectOverlapsWith(self, other) == (GetValues(self) \cap GetValues(other)) # {}

\* Bucket.get_score, dispatched on the bucket's class
BucketGetScore(self, value, default) ==
    IF self.class = "NumericBucket"
    THEN NumericGetScore(self, value, default)
    ELSE ObjectGetScore(self, value, default)

\* Bucket.overlaps_with, dispatched on the bucket's class (same-kind pairs only)
BucketOverlapsWith(self, other) ==
    IF self.class = "NumericBucket"
    THEN NumericOverlapsWith(self, other)
    ELSE ObjectOverlapsWith(self, other)

\* Bucket.contains (called by feature.py:43; bucket.py does not define it):
\* the containment test of section 4.1, "equivalently get_score": a value of
\* the wrong kind is a type error, otherwise membership.
BucketContains(self, value) ==
    IF self.class = "NumericBucket"
    THEN IF value.type # "num" THEN Raise("TypeError")
         ELSE Return(IF self.definition.form = "tuple"
                     THEN /\ (IF self.left_inclusive
                              THEN value.num >= self.definition.lo
                              ELSE value.num > self.definition.lo)
                          /\ (IF self.right_inclusive
                              THEN value.num <= self.definition.hi
                              ELSE value.num < self.definition.hi)
                     ELSE value.num = self.definition.lo)
    ELSE IF value.type # "str" THEN Raise("TypeError")
         ELSE Return(value.str \in GetValues(self))

\* NumericBucket.get_sort_key / ObjectBucket.get_sort_key: (tier, score)
GetSortKey(self) ==
    IF self.class = "NumericBucket"
    THEN (IF self.definition.form = "tuple" THEN <<0, self.score>> ELSE <<1, self.score>>)
    ELSE (IF self.definition.form = "str" THEN <<1, self.score>> ELSE <<0, self.score>>)

\* Python's tuple order on sort keys
KeyLess(k1, k2) == k1[1] < k2[1] \/ (k1[1] = k2[1] /\ k1[2] < k2[2])

-----------------------------------------------------------------------------
(* models/feature.py                                                       *)

\* list.sort(key=...) is stable: a bucket goes after every bucket already
\* placed whose key is not greater than its own.
RECURSIVE InsertByKey(_, _)
InsertByKey(sorted, b) ==
    IF sorted = <<>> THEN <<b>>
    ELSE IF KeyLess(GetSortKey(b), GetSortKey(sorted[Len(sorted)]))
         THEN Append(InsertByKey(SubSeq(sorted, 1, Len(sorted) - 1), b),
                     sorted[Len(sorted)])
         ELSE Append(sorted, b)

RECURSIVE SortFrom(_, _, _)
SortFrom(buckets, i, sorted) ==
    IF i > Len(buckets) THEN sorted
    ELSE SortFrom(buckets, i + 1, InsertByKey(sorted, buckets[i]))

\* BaseFeature.order_buckets (model_validator, runs at construction)
OrderBuckets(buckets) == SortFrom(buckets, 1, <<>>)

\* A feature as constructed: its buckets are stored in sort-key order
Feature(name, buckets, weight, default_score) ==
    [name |-> name, buckets |-> OrderBuckets(buckets), weight |-> weight,
     default_score |-> default_score]

\* A plausible slip: only neighbouring buckets are compared.
RECURSIVE OverlapsFromAdjacent(_, _, _)
OverlapsFromAdjacent(buckets, i, j) ==
    IF i > Len(buckets) THEN <<>>
    ELSE IF j > Len(buckets) \/ j > i + 1 THEN OverlapsFromAdjacent(buckets, i + 1, i + 2)
    ELSE IF BucketOverlapsWith(buckets[i], buckets[j])
         THEN <<(<<buckets[i], buckets[j]>>)>> \o OverlapsFromAdjacent(buckets, i, j + 1)
         ELSE OverlapsFromAdjacent(buckets, i, j + 1)

\* BaseFeature.get_overlapping_buckets: the pairs (i, j), i < j, that overlap,
\* in the order the two loops find them
RECURSIVE OverlapsFrom(_, _, _)
OverlapsFrom(buckets, i, j) ==
    IF i > Len(buckets) THEN <<>>
    ELSE IF j > Len(buckets) THEN OverlapsFrom(buckets, i + 1, i + 2)
    ELSE IF BucketOverlapsWith(buckets[i], buckets[j])
         THEN <<(<<buckets[i], buckets[j]>>)>> \o OverlapsFrom(buckets, i, j + 1)
         ELSE OverlapsFrom(buckets, i, j + 1)

GetOverlappingBuckets(feature) == OverlapsFrom(feature.buckets, 1, 2)

\* BaseFeature.has_overlapping_buckets
HasOverlappingBuckets(feature) ==
    \E i \in 1..Len(feature.buckets) : \E j \in (i + 1)..Len(feature.buckets) :
        BucketOverlapsWith(feature.buckets[i], feature.buckets[j])

\* A plausible slip: the scan keeps going and the last bucket that contains
\* the value wins.
RECURSIVE BucketForValueLast(_, _, _)
BucketForValueLast(buckets, i, value) ==
    IF i > Len(buckets) THEN Return(0)
    ELSE LET c == BucketContains(buckets[i], value)
             rest == BucketForValueLast(buckets, i + 1, value)
         IN  IF c.raised # "none" THEN c
             ELSE IF rest.value # 0 THEN rest
             ELSE IF c.value THEN Return(i)
             ELSE Return(0)

\* BaseFeature._get_bucket_for_value: the index of the first bucket that
\* contains the value (0 when none does), or the type error of the first
\* bucket asked
RECURSIVE BucketForValueFrom(_, _, _)
BucketForValueFrom(buckets, i, value) ==
    IF i > Len(buckets) THEN Return(0)
    ELSE LET c == BucketContains(buckets[i], value)
         IN  IF c.raised # "none" THEN c
             ELSE IF c.value THEN Return(i)
             ELSE BucketForValueFrom(buckets, i + 1, value)

\* BaseFeature.get_score
FeatureGetScore(feature, value) ==
    LET bucket == BucketForValueFrom(feature.buckets, 1, value)
    IN  IF bucket.raised # "none" THEN bucket
        ELSE IF bucket.value # 0 THEN Return(feature.buckets[bucket.value].score)
        ELSE Return(feature.default_score)

-----------------------------------------------------------------------------
(* validation/validators.py                                                *)

Hundred == 100000    \* 100.0, in thousandths
Tolerance == 1       \* 0.001, in thousandths

Abs(x) == IF x < 0 THEN 0 - x ELSE x

RECURSIVE SumWeights(_, _)
SumWeights(features, i) ==
    IF i > Len(features) THEN 0 ELSE features[i].weight + SumWeights(features, i + 1)

Passed == [raised |-> "none", title |-> "", errors |-> <<>>]
ValidationError(title, errors) ==
    [raised |-> "ValidationError", title |-> title, errors |-> errors]

\* A plausible slip: the tolerance compared with >=, so that a difference of
\* exactly 0.001 fails.
FeatureWeightValidateStrict(features) ==
    LET total_weight == SumWeights(features, 1)
    IN  IF Abs(total_weight - Hundred) >= Tolerance
        THEN ValidationError("Weight validation failed",
                 <<[input |-> PyNum(total_weight),
                    error |-> <<"Feature weights must sum to 100, got", total_weight>>]>>)
        ELSE Passed

\* FeatureWeightValidator.validate
FeatureWeightValidate(features) ==
    LET total_weight == SumWeights(features, 1)
    IN  IF Abs(total_weight - Hundred) > Tolerance
        THEN ValidationError("Weight validation failed",
                 <<[input |-> PyNum(total_weight),
                    error |-> <<"Feature weights must sum to 100, got", total_weight>>]>>)
        ELSE Passed

\* the error messages of one feature's overlapping pairs
OverlapErrors(feature) ==
    LET overlapping_pairs == GetOverlappingBuckets(feature)
    IN  [k \in 1..Len(overlapping_pairs) |->
            [input |-> PyStr(feature.name),
             error |-> <<"Buckets overlap in feature", feature.name,
                         overlapping_pairs[k][1].definition,
                         overlapping_pairs[k][2].definition>>]]

\* OverlapValidator.validate: raises inside the loop, at the first feature
\* that has overlapping buckets
RECURSIVE OverlapValidateFrom(_, _)
OverlapValidateFrom(features, i) ==
    IF i > Len(features) THEN Passed
    ELSE IF HasOverlappingBuckets(features[i])
         THEN ValidationError("Bucket overlap validation failed",
                              OverlapErrors(features[i]))
         ELSE OverlapValidateFrom(features, i + 1)

OverlapValidate(features) == OverlapValidateFrom(features, 1)

\* The validator classes: the two of validators.py, and a subclass of
\* FeatureWeightValidator that inherits its name and its validate.
FeatureWeightValidator ==
    [cls |-> "FeatureWeightValidator", name |-> "feature_weight", check |-> "weight"]
OverlapValidator ==
    [cls |-> "OverlapValidator", name |-> "overlap", check |-> "overlap"]
WeightSubclass ==
    [cls |-> "WeightSubclass", name |-> "feature_weight", check |-> "weight"]

ValidatorClasses == {FeatureWeightValidator, OverlapValidator, WeightSubclass}

\* validator.validate(scorecard), dispatched on the class
ValidatorValidate(validator, features) ==
    IF validator.check = "weight"
    THEN FeatureWeightValidate(features)
    ELSE OverlapValidate(features)

-----------------------------------------------------------------------------
(* validation/registry.py                                                  *)

\* A Python dict as the sequence of its items in insertion order
DictHas(d, k) == \E i \in 1..Len(d) : d[i].key = k

\* d[k] = v: a new key is appended, an existing key keeps its place and
\* takes the new value
DictSet(d, k, v) ==
    IF DictHas(d, k)
    THEN [i \in 1..Len(d) |-> IF d[i].key = k THEN [key |-> k, value |-> v] ELSE d[i]]
    ELSE Append(d, [key |-> k, value |-> v])

\* the ValidatorRegistry instances a run may hold
RegistryIds == {"r1", "r2"}

\* an instance without an attribute _validators of its own
Unset == [bound |-> FALSE, table |-> <<>>]

\* self._validators: Python looks the attribute up on the instance and, as
\* the instance has none, on the class
SelfValidators(self) ==
    IF own_validators[self].bound THEN own_validators[self].table ELSE validators

\* item assignment and clear() change the dict that self._validators names,
\* in place; no attribute is bound
MutateSelfValidators(self, table) ==
    IF own_validators[self].bound
    THEN own_validators' = [own_validators EXCEPT ![self].table = table]
         /\ UNCHANGED validators
    ELSE validators' = table /\ UNCHANGED own_validators

\* A plausible slip: register without the duplicate check.
RegisterUnchecked(self, validator) ==
    /\ MutateSelfValidators(self, DictSet(SelfValidators(self), validator.name, validator))
    /\ last' = [op |-> "register", registry |-> self, validator |-> validator,
                raised |-> "none"]
    /\ UNCHANGED <<legacy_validators, scorecards, bucket1, bucket2>>

\* A plausible slip: each instance given a dict of its own at its first
\* register (self._validators = {**self._validators, name: validator}).
RegisterRebinding(self, validator) ==
    /\ IF DictHas(SelfValidators(self), validator.name)
       THEN /\ last' = [op |-> "register", registry |-> self,
                        validator |-> validator, raised |-> "ValueError"]
            /\ UNCHANGED <<validators, own_validators>>
       ELSE /\ own_validators' =
                  [own_validators EXCEPT
                      ![self] = [bound |-> TRUE,
                                 table |-> DictSet(SelfValidators(self),
                                                   validator.name, validator)]]
            /\ UNCHANGED validators
            /\ last' = [op |-> "register", registry |-> self,
                        validator |-> validator, raised |-> "none"]
    /\ UNCHANGED <<legacy_validators, scorecards, bucket1, bucket2>>

\* ValidatorRegistry.register
Register(self, validator) ==
    /\ IF DictHas(SelfValidators(self), validator.name)
       THEN /\ last' = [op |-> "register", registry |-> self,
                        validator |-> validator, raised |-> "ValueError"]
            /\ UNCHANGED <<validators, own_validators>>
       ELSE /\ MutateSelfValidators(self,
                   DictSet(SelfValidators(self), validator.name, validator))
            /\ last' = [op |-> "register", registry |-> self,
                        validator |-> validator, raised |-> "none"]
    /\ UNCHANGED <<legacy_validators, scorecards, bucket1, bucket2>>

\* A plausible slip: clear that leaves the table as it is.
ClearNothing(self) ==
    /\ UNCHANGED <<validators, own_validators>>
    /\ last' = [op |-> "clear", registry |-> self]
    /\ UNCHANGED <<legacy_validators, scorecards, bucket1, bucket2>>

\* ValidatorRegistry.clear
Clear(self) ==
    /\ MutateSelfValidators(self, <<>>)
    /\ last' = [op |-> "clear", registry |-> self]
    /\ UNCHANGED <<legacy_validators, scorecards, bucket1, bucket2>>

\* the loop of ValidatorRegistry.validate: the validators run, in order, up
\* to the first that raises
RECURSIVE RegistryValidateFrom(_, _, _, _)
RegistryValidateFrom(self, features, i, ran) ==
    IF i > Len(SelfValidators(self)) THEN [ran |-> ran, outcome |-> Passed]
    ELSE LET validator == SelfValidators(self)[i].value
             verdict == ValidatorValidate(validator, features)
         IN  IF verdict.raised # "none"
             THEN [ran |-> Append(ran, validator.name), outcome |-> verdict]
             ELSE RegistryValidateFrom(self, features, i + 1,
                                       Append(ran, validator.name))

-----------------------------------------------------------------------------
(* models/expert_scorecard.py                                              *)

\* ValidationResult (validated_at left out)
ValidationResult(validator_name, passed, error_message) ==
    [validator_name |-> validator_name, passed |-> passed,
     error_message |-> error_message]

None == "None"

\* the scorecards a run may construct
ScorecardIds == {"s1", "s2"}

NoScorecard ==
    [constructed |-> FALSE, features |-> <<>>, validation_registry |-> None,
     validation_results |-> <<>>, is_fitted_ |-> FALSE]

\* A plausible slip: the log assigned, not appended to
\* (self.validation_results = [ValidationResult(...)]).
RECURSIVE ValidateFromAssigning(_, _, _, _)
ValidateFromAssigning(self, i, ran, results) ==
    IF i > Len(SelfValidators(self.validation_registry))
    THEN [ran |-> ran, results |-> results, outcome |-> Passed]
    ELSE LET validator == SelfValidators(self.validation_registry)[i].value
             verdict == ValidatorValidate(validator, self.features)
         IN  IF verdict.raised # "none"
             THEN [ran |-> Append(ran, validator.name), results |-> results,
                   outcome |-> verdict]
             ELSE ValidateFromAssigning(self, i + 1, Append(ran, validator.name),
                      <<ValidationResult(validator.name, TRUE, None)>>)

\* A plausible slip: the result appended before the validator is called, so
\* that a validator that raises has its entry too.
RECURSIVE ValidateFromRecordingFirst(_, _, _, _)
ValidateFromRecordingFirst(self, i, ran, results) ==
    IF i > Len(SelfValidators(self.validation_registry))
    THEN [ran |-> ran, results |-> results, outcome |-> Passed]
    ELSE LET validator == SelfValidators(self.validation_registry)[i].value
             verdict == ValidatorValidate(validator, self.features)
             recorded == Append(results, ValidationResult(validator.name, TRUE, None))
         IN  IF verdict.raised # "none"
             THEN [ran |-> Append(ran, validator.name), results |-> recorded,
                   outcome |-> verdict]
             ELSE ValidateFromRecordingFirst(self, i + 1,
                      Append(ran, validator.name), recorded)

\* the loop of ExpertScorecard.validate from the i-th registered validator:
\* a validator that passes is recorded, one that raises ends the call
RECURSIVE ValidateFrom(_, _, _, _)
ValidateFrom(self, i, ran, results) ==
    IF i > Len(SelfValidators(self.validation_registry))
    THEN [ran |-> ran, results |-> results, outcome |-> Passed]
    ELSE LET validator == SelfValidators(self.validation_registry)[i].value
             verdict == ValidatorValidate(validator, self.features)
         IN  IF verdict.raised # "none"
             THEN [ran |-> Append(ran, validator.name), results |-> results,
                   outcome |-> verdict]
             ELSE ValidateFrom(self, i + 1, Append(ran, validator.name),
                      Append(results,
                             ValidationResult(validator.name, TRUE, None)))

\* ExpertScorecard.validate, on a scorecard whose fields are self
RunValidate(self) ==
    IF self.validation_registry # None
    THEN ValidateFrom(self, 1, <<>>, self.validation_results)
    ELSE [ran |-> <<>>, results |-> self.validation_results, outcome |-> Passed]

\* A plausible slip: a feature missing from the record is scored with its
\* default_score instead of being skipped.
RECURSIVE ScoreFromDefaulting(_, _, _, _)
ScoreFromDefaulting(features, i, record, total_score) ==
    IF i > Len(features) THEN Return(total_score)
    ELSE IF features[i].name \in DOMAIN record
         THEN LET feature_score == FeatureGetScore(features[i], record[features[i].name])
              IN  IF feature_score.raised # "none" THEN feature_score
                  ELSE ScoreFromDefaulting(features, i + 1, record,
                           total_score + feature_score.value * features[i].weight)
         ELSE ScoreFromDefaulting(features, i + 1, record,
                  total_score + features[i].default_score * features[i].weight)

\* ExpertScorecard._score_record: the total, in units of 1/100000 (scores are
\* whole numbers, weights thousandths), or the first type error
RECURSIVE ScoreFrom(_, _, _, _)
ScoreFrom(features, i, record, total_score) ==
    IF i > Len(features) THEN Return(total_score)
    ELSE IF features[i].name \in DOMAIN record
         THEN LET feature_score == FeatureGetScore(features[i], record[features[i].name])
              IN  IF feature_score.raised # "none" THEN feature_score
                  ELSE ScoreFrom(features, i + 1, record,
                           total_score + feature_score.value * features[i].weight)
         ELSE ScoreFrom(features, i + 1, record, total_score)

ScoreRecord(self, record) == ScoreFrom(self.features, 1, record, 0)

-----------------------------------------------------------------------------
(* Inputs of the bucket operations                                         *)

Nums == 0..MaxNum
Scores == {10, 20}
Defaults == {0, 10}
Strings == {"a", "b"}

NumericDefinitions ==
    {TupleDefinition(lo, hi) : lo \in Nums, hi \in Nums}
        \cup {FloatDefinition(v) : v \in Nums}

NumericBuckets ==
    {NumericBucket(d, s, li, ri) :
        d \in NumericDefinitions, s \in Scores, li \in BOOLEAN, ri \in BOOLEAN}

StringLists == UNION {[1..n -> Strings] : n \in 0..MaxListLen}

ObjectDefinitions ==
    {StrDefinition(s) : s \in Strings} \cup {ListDefinition(l) : l \in StringLists}

ObjectBuckets == {ObjectBucket(d, s) : d \in ObjectDefinitions, s \in Scores}

\* the values handed to get_score: numbers around the bounds, and strings
ProbeValues ==
    {PyNum(n) : n \in (0 - 1)..(MaxNum + 1)} \cup {PyStr(s) : s \in Strings \cup {"c"}}

NoBucket == ObjectBucket(ListDefinition(<<>>), 10)
NoCall == [op |-> "none"]

-----------------------------------------------------------------------------
(* The bucket operations applied to every pair of same-kind buckets        *)

InitBucket ==
    /\ validators = <<>>
    /\ own_validators = [r \in RegistryIds |-> Unset]
    /\ legacy_validators = <<>>
    /\ scorecards = [s \in ScorecardIds |-> NoScorecard]
    /\ \/ (bucket1 \in NumericBuckets /\ bucket2 \in NumericBuckets)
       \/ (bucket1 \in ObjectBuckets /\ bucket2 \in ObjectBuckets)
    /\ last = NoCall

\* bucket1.get_score(value, default)
GetScore(value, default) ==
    /\ last' = [op |-> "get_score", value |-> value, default |-> default,
                result |-> BucketGetScore(bucket1, value, default)]
    /\ UNCHANGED <<validators, own_validators, legacy_validators, scorecards, bucket1, bucket2>>

\* bucket1.overlaps_with(bucket2) and bucket2.overlaps_with(bucket1), as the
\* tests of test_bucket.py call them one after the other
OverlapsWith ==
    /\ last' = [op |-> "overlaps_with",
                forward |-> BucketOverlapsWith(bucket1, bucket2),
                backward |-> BucketOverlapsWith(bucket2, bucket1)]
    /\ UNCHANGED <<validators, own_validators, legacy_validators, scorecards, bucket1, bucket2>>

NextBucket ==
    \/ \E value \in ProbeValues, default \in Defaults : GetScore(value, default)
    \/ OverlapsWith

SpecBucket == InitBucket /\ [][NextBucket]_vars

-----------------------------------------------------------------------------
(* validation/validation_registry.py, with the validators of validator.py  *)

\* A validator instance: an object of the class, told apart by identity
ValidatorObject(cls, id) == [type |-> cls, num |-> id, str |-> ""]

\* the class attribute name of validator.py
ValidatorName(validator_func) ==
    IF validator_func.type = "FeatureWeightValidator" THEN "feature_weight" ELSE "overlap"

\* x in list: some element equals x.  A str never equals a validator object
\* (ScorecardValidator defines no __eq__), two objects are equal when identical.
PyIn(x, list) == \E i \in 1..Len(list) : list[i] = x

\* ValidatorRegistry.register of validation_registry.py: the name, a str, is
\* looked up in the list of validator objects
LegacyRegister(validator_func) ==
    /\ Len(legacy_validators) < MaxLegacy
    /\ IF PyIn(PyStr(ValidatorName(validator_func)), legacy_validators)
       THEN /\ last' = [op |-> "legacy_register", validator |-> validator_func,
                        raised |-> "ValueError"]
            /\ UNCHANGED legacy_validators
       ELSE /\ legacy_validators' = Append(legacy_validators, validator_func)
            /\ last' = [op |-> "legacy_register", validator |-> validator_func,
                        raised |-> "none"]
    /\ UNCHANGED <<validators, own_validators, scorecards, bucket1, bucket2>>

\* the loop of ValidatorRegistry.validate of validation_registry.py
RECURSIVE LegacyValidateFrom(_, _)
LegacyValidateFrom(features, i) ==
    IF i > Len(legacy_validators) THEN Passed
    ELSE LET verdict == IF legacy_validators[i].type = "FeatureWeightValidator"
                        THEN FeatureWeightValidate(features)
                        ELSE OverlapValidate(features)
         IN  IF verdict.raised # "none" THEN verdict
             ELSE LegacyValidateFrom(features, i + 1)

\* ValidatorRegistry.validate of validation_registry.py
LegacyValidate(features) ==
    /\ last' = [op |-> "legacy_validate", features |-> features,
                outcome |-> LegacyValidateFrom(features, 1)]
    /\ UNCHANGED <<validators, own_validators, legacy_validators, scorecards, bucket1, bucket2>>

-----------------------------------------------------------------------------
(* The registry of registry.py and the scorecards that read it             *)

AgeBuckets ==
    <<NumericBucket(TupleDefinition(0, 1), 10, TRUE, FALSE),
      NumericBucket(TupleDefinition(1, 2), 20, TRUE, FALSE)>>
AgeBucketsOverlapping ==
    <<NumericBucket(TupleDefinition(0, 2), 10, TRUE, FALSE),
      NumericBucket(TupleDefinition(1, 2), 20, TRUE, FALSE)>>
ColourBuckets ==
    <<ObjectBucket(StrDefinition("a"), 20), ObjectBucket(ListDefinition(<<"b">>), 10)>>

\* weights 50 + 50, no overlap: passes both validators
GoodFeatures ==
    <<Feature("age", AgeBuckets, 50000, 0), Feature("colour", ColourBuckets, 50000, 0)>>
\* one feature of weight 150 (the fixture of test_registry.py)
HeavyFeatures == <<Feature("age", AgeBuckets, 150000, 0)>>
\* weights sum to 100, the buckets of age overlap
OverlappingFeatures ==
    <<Feature("age", AgeBucketsOverlapping, 50000, 0),
      Feature("colour", ColourBuckets, 50000, 0)>>
\* fails both validators
HeavyOverlappingFeatures == <<Feature("age", AgeBucketsOverlapping, 150000, 0)>>

FeatureLists ==
    {GoodFeatures, HeavyFeatures, OverlappingFeatures, HeavyOverlappingFeatures}

\* the records handed to predict_single
Records ==
    { <<>>,
      [n \in {"age", "colour"} |-> IF n = "age" THEN PyNum(0) ELSE PyStr("a")],
      [n \in {"colour", "other"} |-> IF n = "colour" THEN PyNum(1) ELSE PyStr("a")] }

Init ==
    /\ validators = <<>>
    /\ own_validators = [r \in RegistryIds |-> Unset]
    /\ legacy_validators = <<>>
    /\ scorecards = [s \in ScorecardIds |-> NoScorecard]
    /\ bucket1 = NoBucket
    /\ bucket2 = NoBucket
    /\ last = NoCall

\* A plausible slip: the failure of validate() caught in the constructor, so
\* that the scorecard exists, fitted, whatever validation said.
ConstructKeepingFailed(s, features, validation_registry) ==
    /\ ~scorecards[s].constructed
    /\ LET self == [constructed |-> TRUE, features |-> features,
                    validation_registry |-> validation_registry,
                    validation_results |-> <<>>, is_fitted_ |-> FALSE]
           run == RunValidate(self)
       IN  /\ Len(run.results) <= MaxLog
           /\ scorecards' =
                 [scorecards EXCEPT ![s] =
                    [self EXCEPT !.validation_results = run.results,
                                 !.is_fitted_ = TRUE]]
           /\ last' = [op |-> "construct", scorecard |-> s, features |-> features,
                       validation_registry |-> validation_registry, before |-> 0,
                       ran |-> run.ran, outcome |-> run.outcome]
    /\ UNCHANGED <<validators, own_validators, legacy_validators, bucket1, bucket2>>

\* ExpertScorecard.__init__: the fields are set, validate() runs, and only
\* if it returns is is_fitted_ set and the object handed to the caller
Construct(s, features, validation_registry) ==
    /\ ~scorecards[s].constructed
    /\ LET self == [constructed |-> TRUE, features |-> features,
                    validation_registry |-> validation_registry,
                    validation_results |-> <<>>, is_fitted_ |-> FALSE]
           run == RunValidate(self)
       IN  /\ Len(run.results) <= MaxLog
           /\ IF run.outcome.raised = "none"
              THEN scorecards' =
                     [scorecards EXCEPT ![s] =
                        [self EXCEPT !.validation_results = run.results,
                                     !.is_fitted_ = TRUE]]
              ELSE UNCHANGED scorecards
           /\ last' = [op |-> "construct", scorecard |-> s, features |-> features,
                       validation_registry |-> validation_registry, before |-> 0,
                       ran |-> run.ran, outcome |-> run.outcome]
    /\ UNCHANGED <<validators, own_validators, legacy_validators, bucket1, bucket2>>

\* scorecard.validate() on a constructed scorecard
Validate(s) ==
    /\ scorecards[s].constructed
    /\ LET run == RunValidate(scorecards[s])
       IN  /\ Len(run.results) <= MaxLog
           /\ scorecards' = [scorecards EXCEPT ![s].validation_results = run.results]
           /\ last' = [op |-> "validate", scorecard |-> s,
                       before |-> Len(scorecards[s].validation_results),
                       ran |-> run.ran, outcome |-> run.outcome]
    /\ UNCHANGED <<validators, own_validators, legacy_validators, bucket1, bucket2>>

\* registry.validate(scorecard): ValidatorRegistry.validate
RegistryValidate(self, s) ==
    /\ scorecards[s].constructed
    /\ LET run == RegistryValidateFrom(self, scorecards[s].features, 1, <<>>)
       IN  last' = [op |-> "registry_validate", registry |-> self, scorecard |-> s,
                    ran |-> run.ran, outcome |-> run.outcome]
    /\ UNCHANGED <<validators, own_validators, legacy_validators, scorecards, bucket1, bucket2>>

\* scorecard.predict_single(record)
PredictSingle(s, record) ==
    /\ scorecards[s].constructed
    /\ last' = [op |-> "predict_single", scorecard |-> s, record |-> record,
                result |-> ScoreRecord(scorecards[s], record)]
    /\ UNCHANGED <<validators, own_validators, legacy_validators, scorecards, bucket1, bucket2>>

Next ==
    \/ \E validator \in ValidatorClasses : Register("r1", validator)
    \/ Clear("r1")
    \/ \E s \in ScorecardIds, features \in FeatureLists, registry \in {"r1", None} :
          Construct(s, features, registry)
    \/ \E s \in ScorecardIds : Validate(s)
    \/ \E s \in ScorecardIds : RegistryValidate("r1", s)
    \/ \E s \in ScorecardIds, record \in Records : PredictSingle(s, record)

Spec == Init /\ [][Next]_vars

\* The same program with two registry instances, each of which registers,
\* clears and validates, and either of which a scorecard may hold
NextShared ==
    \/ \E r \in RegistryIds, validator \in {FeatureWeightValidator, OverlapValidator} :
          Register(r, validator)
    \/ \E r \in RegistryIds : Clear(r)
    \/ \E s \in ScorecardIds, registry \in RegistryIds :
          Construct(s, GoodFeatures, registry)
    \/ \E s \in ScorecardIds : Validate(s)
    \/ \E r \in RegistryIds, s \in ScorecardIds : RegistryValidate(r, s)

SpecShared == Init /\ [][NextShared]_vars

\* the validator objects handed to the list registry: two instances of
\* FeatureWeightValidator and one of OverlapValidator
ValidatorObjects ==
    {ValidatorObject("FeatureWeightValidator", 1),
     ValidatorObject("FeatureWeightValidator", 2),
     ValidatorObject("OverlapValidator", 3)}

NextLegacy ==
    \/ \E validator_func \in ValidatorObjects : LegacyRegister(validator_func)
    \/ \E features \in FeatureLists : LegacyValidate(features)

SpecLegacy == Init /\ [][NextLegacy]_vars

-----------------------------------------------------------------------------
(* Features and scoring: a scorecard built without a registry, then asked  *)

\* the numeric buckets a feature is built from: ranges that touch, nest and
\* overlap, a degenerate range, exact values with and without a flag set
NumericPool ==
    {NumericBucket(TupleDefinition(0, 1), 10, TRUE, FALSE),
     NumericBucket(TupleDefinition(1, 2), 20, TRUE, FALSE),
     NumericBucket(TupleDefinition(0, 2), 20, TRUE, TRUE),
     NumericBucket(TupleDefinition(0, 2), 10, FALSE, FALSE),
     NumericBucket(TupleDefinition(1, 1), 10, TRUE, FALSE),
     NumericBucket(TupleDefinition(1, 2), 10, FALSE, TRUE),
     NumericBucket(FloatDefinition(1), 20, TRUE, FALSE),
     NumericBucket(FloatDefinition(1), 10, FALSE, FALSE)}

ObjectPool ==
    {ObjectBucket(StrDefinition("a"), 10),
     ObjectBucket(StrDefinition("b"), 20),
     ObjectBucket(ListDefinition(<<"a", "b">>), 10),
     ObjectBucket(ListDefinition(<<"b">>), 20),
     ObjectBucket(ListDefinition(<<>>), 10)}

BucketLists(pool) == UNION {[1..n -> pool] : n \in 0..MaxBuckets}

\* scorecards of one feature, its buckets in every order an author may give
SingleFeatureLists ==
    {<<Feature("age", buckets, 100000, 5)>> : buckets \in BucketLists(NumericPool)}
        \cup {<<Feature("colour", buckets, 100000, 5)>> :
                 buckets \in BucketLists(ObjectPool)}

ShadeBuckets ==
    <<ObjectBucket(StrDefinition("a"), 80), ObjectBucket(ListDefinition(<<"b">>), 10)>>
ShadeBucketsOverlapping ==
    <<ObjectBucket(StrDefinition("a"), 80),
      ObjectBucket(ListDefinition(<<"a", "b">>), 10),
      ObjectBucket(ListDefinition(<<"b">>), 20)>>

\* weights around 50, in thousandths
Weights == {49998, 49999, 50000, 50001, 50002, 100000}

\* scorecards of two features, with weight sums around 100 and with overlaps
\* in none, one or both of the features
PairFeatureLists ==
    {<<Feature("age", age, w1, 0), Feature("colour", shade, w2, 0)>> :
        age \in {AgeBuckets, AgeBucketsOverlapping},
        shade \in {ShadeBuckets, ShadeBucketsOverlapping},
        w1 \in Weights, w2 \in Weights}

FeatureInputs == SingleFeatureLists \cup PairFeatureLists

\* a dict of one or two items
Item(k, v) == [n \in {k} |-> v]
Items(k1, v1, k2, v2) == [n \in {k1, k2} |-> IF n = k1 THEN v1 ELSE v2]

\* the records scored: complete, with a field missing, with a key no feature
\* has, and with a value of the wrong kind in the first or the second feature
FeatureRecords ==
    { <<>>,
      Items("age", PyNum(0), "colour", PyStr("a")),
      Items("age", PyNum(1), "colour", PyStr("a")),
      Item("age", PyNum(1)),
      Items("colour", PyStr("b"), "other", PyNum(1)),
      Items("age", PyStr("a"), "colour", PyStr("a")),
      Items("age", PyNum(0), "colour", PyNum(1)) }

\* scorecard.features[i].get_score(value)
CallFeatureGetScore(s, i, value) ==
    /\ scorecards[s].constructed
    /\ i \in 1..Len(scorecards[s].features)
    /\ last' = [op |-> "feature_get_score", scorecard |-> s, feature |-> i,
                value |-> value,
                result |-> FeatureGetScore(scorecards[s].features[i], value)]
    /\ UNCHANGED <<validators, own_validators, legacy_validators, scorecards, bucket1, bucket2>>

\* scorecard.features[i].buckets[k].get_score(value, default)
CallBucketGetScore(s, i, k, value, default) ==
    /\ scorecards[s].constructed
    /\ i \in 1..Len(scorecards[s].features)
    /\ k \in 1..Len(scorecards[s].features[i].buckets)
    /\ last' = [op |-> "bucket_get_score", scorecard |-> s, feature |-> i,
                bucket |-> k, value |-> value, default |-> default,
                result |-> BucketGetScore(scorecards[s].features[i].buckets[k],
                                          value, default)]
    /\ UNCHANGED <<validators, own_validators, legacy_validators, scorecards, bucket1, bucket2>>

\* scorecard.features[i].get_overlapping_buckets() and has_overlapping_buckets()
CallGetOverlappingBuckets(s, i) ==
    /\ scorecards[s].constructed
    /\ i \in 1..Len(scorecards[s].features)
    /\ last' = [op |-> "get_overlapping_buckets", scorecard |-> s, feature |-> i,
                result |-> GetOverlappingBuckets(scorecards[s].features[i]),
                has |-> HasOverlappingBuckets(scorecards[s].features[i])]
    /\ UNCHANGED <<validators, own_validators, legacy_validators, scorecards, bucket1, bucket2>>

\* validator.validate(scorecard), the classmethod called directly
CallValidator(s, validator) ==
    /\ scorecards[s].constructed
    /\ last' = [op |-> "validator_validate", scorecard |-> s,
                validator |-> validator,
                outcome |-> ValidatorValidate(validator, scorecards[s].features)]
    /\ UNCHANGED <<validators, own_validators, legacy_validators, scorecards, bucket1, bucket2>>

NextFeature ==
    \/ \E features \in FeatureInputs : Construct("s1", features, None)
    \/ \E record \in FeatureRecords : PredictSingle("s1", record)
    \/ \E i \in 1..2, value \in ProbeValues : CallFeatureGetScore("s1", i, value)
    \/ \E i \in 1..2, k \in 1..MaxBuckets, value \in ProbeValues :
          CallBucketGetScore("s1", i, k, value, 5)
    \/ \E i \in 1..2 : CallGetOverlappingBuckets("s1", i)
    \/ \E validator \in {FeatureWeightValidator, OverlapValidator} :
          CallValidator("s1", validator)

SpecFeature == Init /\ [][NextFeature]_vars

-----------------------------------------------------------------------------
(* Properties of the registry and of validation (checked under Spec)       *)

IsPrefix(a, b) == Len(a) <= Len(b) /\ SubSeq(b, 1, Len(a)) = a

\* C1: register of a name that is already a key raises and leaves the
\* registry unchanged; otherwise it adds the entry at the end.  So an entry,
\* once in the registry, is never replaced (the first registered under a name
\* stays), and no name is a key twice.
C1_RegisterKeepsFirst ==
    [][ /\ \A i \in 1..Len(validators) :
             i <= Len(validators') => validators'[i] = validators[i]
        /\ last'.op = "register" =>
             IF DictHas(validators, last'.validator.name)
             THEN last'.raised = "ValueError" /\ validators' = validators
             ELSE /\ last'.raised = "none"
                  /\ validators' =
                       Append(validators, [key |-> last'.validator.name,
                                           value |-> last'.validator])
        /\ \A i, j \in 1..Len(validators') :
             validators'[i].key = validators'[j].key => i = j
      ]_vars

\* C1 witness: a second class with a registered name was refused, and the
\* entry under that name is still the other, earlier class
C1_Witness ==
    /\ last.op = "register"
    /\ last.raised = "ValueError"
    /\ \E i \in 1..Len(validators) :
          /\ validators[i].key = last.validator.name
          /\ validators[i].value # last.validator

\* C3: a validate() call runs every registered validator, also after one has
\* failed, and the failure raised covers every validator that fails.
C3_ValidateTotal ==
    (last.op = "validate" /\ scorecards[last.scorecard].validation_registry # None)
    => /\ Len(last.ran) = Len(validators)
       /\ \A i \in 1..Len(validators) :
            LET verdict == ValidatorValidate(validators[i].value,
                               scorecards[last.scorecard].features)
            IN  verdict.raised # "none" =>
                    \E e \in Range(last.outcome.errors) : e \in Range(verdict.errors)

\* C4: a validate() call in which every validator of the scorecard's
\* registry passes appends, in registration order, one ValidationResult
\* with passed = TRUE and the validator's name per validator; the log grows
\* by the number of registered validators.
C4_PassingValidateAppends ==
    (last.op \in {"validate", "construct"} /\ last.outcome.raised = "none"
        /\ scorecards[last.scorecard].validation_registry # None)
    => LET log == scorecards[last.scorecard].validation_results
       IN  /\ Len(log) = last.before + Len(validators)
           /\ \A k \in 1..Len(validators) :
                log[last.before + k] =
                    ValidationResult(validators[k].value.name, TRUE, None)

\* C4 witness: a second passing validate() with two validators registered
C4_Witness ==
    /\ last.op = "validate"
    /\ last.outcome.raised = "none"
    /\ scorecards[last.scorecard].validation_registry # None
    /\ Len(validators) = 2
    /\ last.before > 0

\* C5: every run of a validator, passing or failing, leaves exactly one
\* ValidationResult in the log; a failing run is recorded with passed = FALSE
\* and an error message.
C5_EveryRunRecorded ==
    last.op = "validate"
    => LET log == scorecards[last.scorecard].validation_results
       IN  /\ Len(log) = last.before + Len(last.ran)
           /\ last.outcome.raised # "none" =>
                /\ ~log[Len(log)].passed
                /\ log[Len(log)].error_message # None

\* C6: the audit log is append-only: every step leaves each scorecard's
\* validation_results a prefix of what it is afterwards, and clear() leaves
\* every scorecard as it is.
C6_AuditLogAppendOnly ==
    [][ /\ \A s \in ScorecardIds :
             IsPrefix(scorecards[s].validation_results,
                      scorecards'[s].validation_results)
        /\ last'.op = "clear" => scorecards' = scorecards
      ]_vars

\* C6 witness: the registry has just been cleared and a scorecard still
\* holds the results issued before
C6_Witness ==
    /\ last.op = "clear"
    /\ \E s \in ScorecardIds : Len(scorecards[s].validation_results) >= 2

\* C7: clear() empties the registry, and a register right after it succeeds
\* whatever the name, leaving that validator as the only entry.
C7_ClearResets ==
    [][ /\ last'.op = "clear" => validators' = <<>>
        /\ (last.op = "clear" /\ last'.op = "register") =>
              /\ last'.raised = "none"
              /\ validators' = <<[key |-> last'.validator.name,
                                  value |-> last'.validator]>>
      ]_vars

\* C7 witness: a name that a scorecard's log shows was registered (and run)
\* before is registered again into the emptied registry
C7_Witness ==
    /\ last.op = "register"
    /\ last.raised = "none"
    /\ Len(validators) = 1
    /\ \E s \in ScorecardIds :
          \E k \in 1..Len(scorecards[s].validation_results) :
              scorecards[s].validation_results[k].validator_name
                  = last.validator.name

-----------------------------------------------------------------------------
(* Properties of the list registry (checked under SpecLegacy)              *)

\* C2: the list registry holds no two validators with the same name, because
\* register raises for a name that is already registered.
C2_LegacyNoDuplicateNames ==
    \A i, j \in 1..Len(legacy_validators) :
        ValidatorName(legacy_validators[i]) = ValidatorName(legacy_validators[j])
            => i = j

-----------------------------------------------------------------------------
(* Properties of the bucket operations (checked under SpecBucket)          *)

\* membership as section 4.1 of the specification words it
RangeMembership(low, high, left_inclusive, right_inclusive, value) ==
    /\ (IF left_inclusive THEN low <= value ELSE low < value)
    /\ (IF right_inclusive THEN value <= high ELSE value < high)

IsMember(bucket, value) ==
    IF bucket.definition.form = "tuple"
    THEN RangeMembership(bucket.definition.lo, bucket.definition.hi,
                         bucket.left_inclusive, bucket.right_inclusive, value)
    ELSE value = bucket.definition.lo

\* C8: NumericBucket.get_score with a numeric value never raises and returns
\* the bucket's score when the value is a member (range membership by the
\* two inclusivity flags, exact values by equality), the default otherwise.
C8_GetScoreMembership ==
    (last.op = "get_score" /\ bucket1.class = "NumericBucket"
        /\ last.value.type = "num")
    => /\ last.result.raised = "none"
       /\ last.result.value =
            IF IsMember(bucket1, last.value.num)
            THEN bucket1.score ELSE last.default

\* C8 witness: [lo, hi) asked for hi itself answers the default, not the score
C8_Witness ==
    /\ last.op = "get_score"
    /\ bucket1.class = "NumericBucket"
    /\ bucket1.definition.form = "tuple"
    /\ bucket1.definition.lo < bucket1.definition.hi
    /\ bucket1.left_inclusive /\ ~bucket1.right_inclusive
    /\ last.value = PyNum(bucket1.definition.hi)
    /\ last.default # bucket1.score
    /\ last.result = Return(last.default)

\* two range buckets a, b touch at p: a's upper bound and b's lower bound are p
TouchAt(a, b, p) ==
    /\ a.class = "NumericBucket" /\ b.class = "NumericBucket"
    /\ a.definition.form = "tuple" /\ b.definition.form = "tuple"
    /\ a.definition.lo <= a.definition.hi /\ b.definition.lo <= b.definition.hi
    /\ a.definition.hi = p /\ b.definition.lo = p

\* C9: two range buckets that touch at a single point p overlap if and only
\* if both contain p under their own inclusivity flags.
C9_TouchingOverlapIffBothInclude ==
    last.op = "overlaps_with" =>
        \A p \in Nums :
            (TouchAt(bucket1, bucket2, p) \/ TouchAt(bucket2, bucket1, p))
            => (last.forward = (IsMember(bucket1, p) /\ IsMember(bucket2, p)))

\* The same statement for ranges with low < high, where it holds of the code.
ProperRangesTouching ==
    (last.op = "overlaps_with"
        /\ bucket1.class = "NumericBucket"
        /\ bucket1.definition.lo < bucket1.definition.hi
        /\ bucket2.definition.lo < bucket2.definition.hi)
    => \A p \in Nums :
            (TouchAt(bucket1, bucket2, p) \/ TouchAt(bucket2, bucket1, p))
            => (last.forward = (IsMember(bucket1, p) /\ IsMember(bucket2, p)))

\* C10: overlaps_with is symmetric for every pair of NumericBuckets and every
\* pair of ObjectBuckets: a.overlaps_with(b) = b.overlaps_with(a).
C10_OverlapSymmetric ==
    last.op = "overlaps_with" => (last.forward = last.backward)

\* C10 witness: an exact value against a range that contains it, and a list
\* against a single string
C10_Witness ==
    /\ last.op = "overlaps_with"
    /\ last.forward /\ last.backward
    /\ bucket1.class = "NumericBucket"
    /\ bucket1.definition.form = "float"
    /\ bucket2.definition.form = "tuple"
    /\ bucket2.definition.lo = bucket1.definition.lo
    /\ bucket2.definition.lo < bucket2.definition.hi

\* the same bucket on a grid twice as fine: between two neighbouring bounds
\* lies a value, as between two bounds given as floats
Refined(bucket) ==
    IF bucket.class = "NumericBucket"
    THEN [bucket EXCEPT !.definition.lo = 2 * @, !.definition.hi = 2 * @]
    ELSE bucket

\* get_score answers the bucket's own score, not the default, for the value
Matches(bucket, value) ==
    BucketGetScore(bucket, value, bucket.score - 1) = Return(bucket.score)

\* the two buckets share a matchable value
SharedValue(a, b) ==
    IF a.class = "NumericBucket"
    THEN \E n \in (0 - 1)..(2 * MaxNum + 1) :
            Matches(Refined(a), PyNum(n)) /\ Matches(Refined(b), PyNum(n))
    ELSE \E str \in Strings : Matches(a, PyStr(str)) /\ Matches(b, PyStr(str))

\* C11: a.overlaps_with(b) is true if and only if some value is contained in
\* both buckets (get_score answers each bucket's own score for it).
C11_OverlapIffSharedValue ==
    last.op = "overlaps_with" => (last.forward = SharedValue(bucket1, bucket2))

\* The same statement where it holds of the code: ranges with low < high, and
\* exact values that keep an inclusive flag set, and categorical buckets.
OverlapIffSharedValueRegular ==
    (last.op = "overlaps_with"
        /\ \A b \in {bucket1, bucket2} :
              b.class = "NumericBucket" =>
                  IF b.definition.form = "tuple"
                  THEN b.definition.lo < b.definition.hi
                  ELSE b.left_inclusive \/ b.right_inclusive)
    => (last.forward = SharedValue(bucket1, bucket2))

\* C12: an exact-value bucket v overlaps another numeric bucket if and only
\* if that bucket contains v, whatever the exact-value bucket's flags.
C12_ExactValueFlagsIgnored ==
    (last.op = "overlaps_with"
        /\ bucket1.class = "NumericBucket"
        /\ bucket1.definition.form = "float")
    => (last.forward = Matches(bucket2, PyNum(bucket1.definition.lo)))

-----------------------------------------------------------------------------
(* Properties of features and scoring (checked under SpecFeature)          *)

\* a number handed to an object bucket, or a string to a numeric bucket
WrongKind(bucket, value) ==
    \/ (bucket.class = "NumericBucket" /\ value.type = "str")
    \/ (bucket.class = "ObjectBucket" /\ value.type = "num")

Containing(feature, value) ==
    {k \in 1..Len(feature.buckets) : Matches(feature.buckets[k], value)}

Present(features, record) ==
    {i \in 1..Len(features) : features[i].name \in DOMAIN record}

\* the sum over a set of features of get_score(record[name]) * weight, in
\* units of 1/100000 (weights are thousandths, and the division by 100 is
\* kept exact by leaving the total undivided)
RECURSIVE WeightedSum(_, _, _)
WeightedSum(features, record, indices) ==
    IF indices = {} THEN 0
    ELSE LET i == CHOOSE i \in indices : TRUE
         IN  FeatureGetScore(features[i], record[features[i].name]).value
                 * features[i].weight
             + WeightedSum(features, record, indices \ {i})

AbsentFeatureAddsNothing ==
    (/\ last.op = "predict_single"
     /\ Present(scorecards[last.scorecard].features, last.record) = {})
    => last.result = Return(0)

\* the sum of the weights of a set of features, in thousandths
RECURSIVE TotalWeight(_, _)
TotalWeight(features, indices) ==
    IF indices = {} THEN 0
    ELSE LET i == CHOOSE i \in indices : TRUE
         IN  features[i].weight + TotalWeight(features, indices \ {i})

WeightJustOutsideFails ==
    (/\ last.op = "validator_validate"
     /\ last.validator = FeatureWeightValidator
     /\ LET features == scorecards[last.scorecard].features
        IN  TotalWeight(features, 1..Len(features)) = Hundred + 2 * Tolerance)
    => last.outcome.raised = "ValidationError"

\* the number of overlapping pairs of the features of a set
RECURSIVE TotalOverlaps(_, _)
TotalOverlaps(features, indices) ==
    IF indices = {} THEN 0
    ELSE LET i == CHOOSE i \in indices : TRUE
         IN  Len(GetOverlappingBuckets(features[i]))
                 + TotalOverlaps(features, indices \ {i})

\* C17: OverlapValidator fails if and only if some feature has overlapping
\* buckets, and its errors hold one entry per overlapping pair of every
\* feature that has overlaps, not only of the first such feature.
C17_EveryOverlapReported ==
    (last.op = "validator_validate" /\ last.validator = OverlapValidator)
    => LET features == scorecards[last.scorecard].features
           offending == {i \in 1..Len(features) : HasOverlappingBuckets(features[i])}
       IN  /\ (last.outcome.raised = "ValidationError") <=> (offending # {})
           /\ Len(last.outcome.errors) = TotalOverlaps(features, 1..Len(features))
           /\ \A i \in offending :
                 \E k \in 1..Len(last.outcome.errors) :
                    last.outcome.errors[k].input = PyStr(features[i].name)

\* what the validator does report: it fails if and only if some feature has
\* overlapping buckets, with one entry per overlapping pair of the first
\* feature that has any
OverlapValidatorReportsFirstFeature ==
    (last.op = "validator_validate" /\ last.validator = OverlapValidator)
    => LET features == scorecards[last.scorecard].features
           offending == {i \in 1..Len(features) : HasOverlappingBuckets(features[i])}
       IN  IF offending = {} THEN last.outcome = Passed
           ELSE \E i \in offending :
                   /\ \A other \in offending : i <= other
                   /\ last.outcome.raised = "ValidationError"
                   /\ Len(last.outcome.errors) = Len(GetOverlappingBuckets(features[i]))
                   /\ \A k \in 1..Len(last.outcome.errors) :
                         last.outcome.errors[k].input = PyStr(features[i].name)

\* the index pairs i < j of a feature's buckets for which overlaps_with is true
OverlappingIndexPairs(feature) ==
    {p \in (1..Len(feature.buckets)) \X (1..Len(feature.buckets)) :
        p[1] < p[2] /\ BucketOverlapsWith(feature.buckets[p[1]], feature.buckets[p[2]])}

\* the place of an index pair among those pairs, in the order of the two loops
PlaceOf(p, pairs) ==
    1 + Cardinality({q \in pairs : q[1] < p[1] \/ (q[1] = p[1] /\ q[2] < p[2])})

\* C18: get_overlapping_buckets returns exactly the pairs (buckets[i],
\* buckets[j]), i < j, for which overlaps_with is true, each once, out of all
\* the pairs of the feature; has_overlapping_buckets is true if and only if
\* that list is not empty.
C18_ExactlyTheOverlappingPairs ==
    last.op = "get_overlapping_buckets"
    => LET feature == scorecards[last.scorecard].features[last.feature]
           pairs == OverlappingIndexPairs(feature)
       IN  /\ Len(last.result) = Cardinality(pairs)
           /\ \A p \in pairs :
                 last.result[PlaceOf(p, pairs)]
                     = <<feature.buckets[p[1]], feature.buckets[p[2]]>>
           /\ last.has <=> (last.result # <<>>)

\* three buckets of which the first and the last overlap, the middle one
\* overlaps one of them, and one pair does not overlap
C18_Witness ==
    /\ last.op = "get_overlapping_buckets"
    /\ LET feature == scorecards[last.scorecard].features[last.feature]
       IN  /\ Len(feature.buckets) = 3
           /\ <<1, 3>> \in OverlappingIndexPairs(feature)
           /\ Cardinality(OverlappingIndexPairs(feature)) = 2
    /\ Len(last.result) = 2
    /\ last.has

\* the feature with its stored buckets in another order
Reordered(feature, order) ==
    [feature EXCEPT !.buckets = [k \in 1..Len(feature.buckets) |-> feature.buckets[order[k]]]]

\* C19: in a feature for which has_overlapping_buckets() is false, every
\* value is contained in at most one bucket, and get_score of the value is
\* the same for every ordering of the buckets.
C19_OrderNeverAffectsScoring ==
    last.op = "feature_get_score"
    => LET feature == scorecards[last.scorecard].features[last.feature]
       IN  ~HasOverlappingBuckets(feature)
           => /\ Cardinality(Containing(feature, last.value)) <= 1
              /\ \A order \in Permutations(1..Len(feature.buckets)) :
                    FeatureGetScore(Reordered(feature, order), last.value) = last.result

\* what does hold, overlaps or not: the order in which the author lists the
\* buckets never changes get_score, because construction sorts them and
\* buckets with equal sort keys have equal scores
AuthorOrderNeverAffectsScoring ==
    last.op = "feature_get_score"
    => LET feature == scorecards[last.scorecard].features[last.feature]
       IN  \A order \in Permutations(1..Len(feature.buckets)) :
              FeatureGetScore(Feature(feature.name, Reordered(feature, order).buckets,
                                      feature.weight, feature.default_score),
                              last.value) = last.result

-----------------------------------------------------------------------------
(* Properties of the registry instances (checked under SpecShared)         *)

\* C20: all ValidatorRegistry instances share one table.  At every point
\* every instance exposes the same validators mapping; a register through
\* one instance is seen through every instance, and makes a register of the
\* same name through any instance fail; clear() through one instance empties
\* the registry of every instance, and a validate() of a scorecard holding
\* any instance then runs no validator.
C20_InstancesShareOneTable ==
    [][ /\ \A r1, r2 \in RegistryIds :
             /\ SelfValidators(r1) = SelfValidators(r2)
             /\ SelfValidators(r1)' = SelfValidators(r2)'
        /\ (last'.op = "register" /\ last'.raised = "none") =>
              \A r \in RegistryIds : DictHas(SelfValidators(r)', last'.validator.name)
        /\ (/\ last.op = "register" /\ last.raised = "none"
            /\ last'.op = "register"
            /\ last'.validator.name = last.validator.name) =>
              last'.raised = "ValueError"
        /\ last'.op = "clear" =>
              \A r \in RegistryIds : SelfValidators(r)' = <<>>
        /\ (last.op = "clear" /\ last'.op \in {"validate", "registry_validate"}) =>
              last'.ran = <<>>
      ]_vars

\* clear() through one instance has emptied the registry that the other
\* instance exposes, an instance a scorecard holds and has run validators of
C20_Witness ==
    /\ last.op = "clear"
    /\ \E r \in RegistryIds, s \in ScorecardIds :
          /\ r # last.registry
          /\ scorecards[s].validation_registry = r
          /\ Len(scorecards[s].validation_results) >= 2
          /\ SelfValidators(r) = <<>>
    /\ \E s \in ScorecardIds : scorecards[s].validation_registry = last.registry

-----------------------------------------------------------------------------
(* Properties of a failing validation, of the live registry and of         *)
(* construction (checked under Spec)                                       *)

\* the validators of a table, by index, that the features fail
Failing(table, features) ==
    {i \in 1..Len(table) : ValidatorValidate(table[i].value, features).raised # "none"}

\* C21: a validate() call in which the k-th validator, in registration
\* order, is the first to fail leaves in validation_results one passed entry
\* for each of the k-1 validators before it, none for the failing validator
\* and none for a later one; the validators after the k-th are not run, and
\* the failure raised is the k-th validator's.
C21_FailingValidateKeepsPassedPrefix ==
    (last.op = "validate" /\ last.outcome.raised # "none")
    => LET self == scorecards[last.scorecard]
           table == SelfValidators(self.validation_registry)
           failing == Failing(table, self.features)
           log == self.validation_results
       IN  \E k \in failing :
              /\ \A other \in failing : k <= other
              /\ Len(log) = last.before + (k - 1)
              /\ \A j \in 1..(k - 1) :
                    log[last.before + j] = ValidationResult(table[j].value.name, TRUE, None)
              /\ last.ran = [j \in 1..k |-> table[j].value.name]
              /\ last.outcome = ValidatorValidate(table[k].value, self.features)

\* the second of two validators fails: the log has gained the entry of the
\* first and nothing else
C21_Witness ==
    /\ last.op = "validate"
    /\ last.outcome.raised # "none"
    /\ LET self == scorecards[last.scorecard]
       IN  /\ Len(SelfValidators(self.validation_registry)) = 2
           /\ Failing(SelfValidators(self.validation_registry), self.features) = {2}
           /\ Len(self.validation_results) = last.before + 1
    /\ Len(last.ran) = 2

\* the first of two validators fails: the second is not run and the log is
\* as it was
FirstFailsSecondNotRun ==
    /\ last.op = "validate"
    /\ last.outcome.raised # "none"
    /\ LET self == scorecards[last.scorecard]
       IN  /\ Len(SelfValidators(self.validation_registry)) = 2
           /\ 1 \in Failing(SelfValidators(self.validation_registry), self.features)
           /\ Len(self.validation_results) = last.before
    /\ Len(last.ran) = 1

\* the names of the validators of a table, in registration order
NamesOf(table) == [j \in 1..Len(table) |-> table[j].value.name]

\* C22: a scorecard reads its registry live: each validate() call runs
\* exactly the validators registered at the moment of the call, in
\* registration order (one registered after the scorecard was constructed
\* included), and with an empty registry it runs nothing, succeeds and
\* appends nothing.
C22_ValidateRunsLiveRegistry ==
    (last.op = "validate" /\ scorecards[last.scorecard].validation_registry # None)
    => LET self == scorecards[last.scorecard]
           table == SelfValidators(self.validation_registry)
       IN  /\ last.ran = NamesOf(table)
           /\ table = <<>> =>
                 /\ last.outcome = Passed
                 /\ Len(self.validation_results) = last.before

\* what does hold of the live registry: the validators run are those
\* registered at the moment of the call, in registration order, up to and
\* including the first that fails
ValidateRunsLiveRegistryUpToFirstFailure ==
    (last.op = "validate" /\ scorecards[last.scorecard].validation_registry # None)
    => LET self == scorecards[last.scorecard]
           table == SelfValidators(self.validation_registry)
           failing == Failing(table, self.features)
       IN  IF failing = {} THEN last.ran = NamesOf(table)
           ELSE \E k \in failing :
                   /\ \A other \in failing : k <= other
                   /\ last.ran = SubSeq(NamesOf(table), 1, k)

\* what does hold after clear(): the next validate() runs nothing, succeeds
\* and leaves every scorecard as it was
ValidateAfterClearRunsNothing ==
    [][ (last.op = "clear" /\ last'.op = "validate")
        => /\ last'.ran = <<>>
           /\ last'.outcome = Passed
           /\ scorecards' = scorecards
      ]_vars

\* a validator registered since the scorecard was constructed has been run
\* by validate(): the log shows a run of fewer validators before it
RegisteredLaterIsRun ==
    /\ last.op = "validate"
    /\ last.outcome = Passed
    /\ Len(last.ran) = 2
    /\ last.before = 1

\* a scorecard that fails a validator it holds the registry of, validated
\* with the registry cleared
FailingScorecardPassesAfterClear ==
    /\ last.op = "validate"
    /\ last.outcome = Passed
    /\ last.ran = <<>>
    /\ scorecards[last.scorecard].validation_registry # None
    /\ Failing(<<[key |-> "feature_weight", value |-> FeatureWeightValidator]>>,
               scorecards[last.scorecard].features) # {}

ConstructionWithFailingValidatorRaised ==
    /\ last.op = "construct"
    /\ last.validation_registry # None
    /\ last.features = HeavyFeatures
    /\ last.outcome.raised = "ValidationError"
    /\ ~scorecards[last.scorecard].constructed

====
